---- MODULE Spec2Model ----
(***************************************************************************)
(* Model of geo-grid-places-search (src/main.ts): geocode a city, tile its *)
(* bounding box into a grid, run one nearby search per grid point, merge   *)
(* the places by id in a Map, export the Map's values as CSV.              *)
(*                                                                         *)
(* Coordinates are IEEE-754 doubles, as in the program. A double is kept   *)
(* as sign and magnitude, the magnitude an integer count of 2^-59 in two   *)
(* limbs of 30 bits; every value the model meets (k/111 for small k, and   *)
(* sums of such) is zero or at least 2^-7 and below 2, hence a multiple of *)
(* 2^-59. Division and addition round to 53 significant bits, ties to      *)
(* even. A box corner k stands for the double k/111.                       *)
(*                                                                         *)
(* run() is an async function: the model has one action per continuation   *)
(* between awaits, and splits the synchronous stretch geocode -> grid ->   *)
(* slice -> loop into labelled steps (nothing can interleave with them).   *)
(***************************************************************************)
EXTENDS Integers, Sequences, FiniteSets, TLC

VARIABLES
    pc,          \* stage of run(): START .. DONE, or REJECTED / EXITED
    testLimit,   \* run's testLimit argument (0 stands for undefined/NaN/0)
    geocodeCalls,\* number of geocode fetches issued
    bounds,      \* result of geocodeCity: [southwest, northeast]
    gpc,         \* position inside generateGrid: idle, row, col, done
    gStep,       \* generateGrid's local `step`
    lat,         \* generateGrid's outer loop variable
    lng,         \* generateGrid's inner loop variable
    points,      \* generateGrid's local `points`
    fullGrid,    \* run's fullGrid
    grid,        \* run's grid (possibly truncated)
    idx,         \* number of grid points whose response has been merged
    inflight,    \* search fetches issued and not yet answered
    timer,       \* remaining pacing delay of a pending sleep (0: none)
    unique,      \* the Map id -> Place, as the sequence of its values in insertion order
    results,     \* run's results array ([...unique.values()])
    csv,         \* run's csv, the text handed to writeFileSync (<<>>: not yet)
    nExports,    \* number of writeFileSync calls
    exitCode,    \* process exit code (-1: still running)
    searched,    \* history: points for which a search call was issued, in order
    responses,   \* history: the answer to each issued search call, in order
    nSleeps,     \* history: number of pacing delays that have elapsed
    geoOutcome,  \* history: pending, results, zero (no geocode result) or reject
    writeFailed, \* history: writeFileSync has thrown
    file         \* what the run has done to the file places_<city>.csv

vars == <<pc, testLimit, geocodeCalls, bounds, gpc, gStep, lat, lng,
          points, fullGrid, grid, idx, inflight, timer, unique, results, csv,
          nExports, exitCode, searched, responses, nSleeps, geoOutcome, writeFailed,
                   file>>

(***************************************************************************)
(* Program constants                                                       *)
(***************************************************************************)
STEP_KM == 3
KM_PER_DEGREE == 111
SLEEP_MS == 300

(***************************************************************************)
(* Bounds of the model                                                     *)
(***************************************************************************)
MaxCoord == 3      \* box corners have lat, lng in 0..MaxCoord
MaxLimit == 3      \* --test=N with N in -1..MaxLimit
MaxPlaces == 2     \* places returned by the provider over one run
MaxCut == 1        \* cut lengths of a failed write: the MaxCut shortest and
                   \* the MaxCut longest proper prefixes of the text
MaxLongKm == 57    \* generateGrid alone also gets boxes one row or one
                   \* column wide, from j / 111 to k / 111 with j in
                   \* 0..MaxCoord and k in 0..MaxLongKm

Min(a, b) == IF a <= b THEN a ELSE b

(***************************************************************************)
(* Double arithmetic                                                       *)
(***************************************************************************)
RECURSIVE Pow2(_)
Pow2(n) == IF n = 0 THEN 1 ELSE 2 * Pow2(n - 1)
RECURSIVE BitLen(_)
BitLen(n) == IF n = 0 THEN 0 ELSE 1 + BitLen(n \div 2)

LimbBits == 30      \* bits of a limb
FracBits == 59      \* a magnitude counts multiples of 2^-59
Mantissa == 53      \* significant bits of a double
Limb == Pow2(LimbBits)

\* Magnitudes: [hi, lo] stands for (hi * 2^30 + lo) * 2^-59.
MagZero == [hi |-> 0, lo |-> 0]
MagAdd(a, b) ==
    [hi |-> a.hi + b.hi + (a.lo + b.lo) \div Limb, lo |-> (a.lo + b.lo) % Limb]
MagSub(a, b) ==
    IF a.lo >= b.lo
    THEN [hi |-> a.hi - b.hi, lo |-> a.lo - b.lo]
    ELSE [hi |-> a.hi - b.hi - 1, lo |-> a.lo + (Limb - b.lo)]
MagLess(a, b) == a.hi < b.hi \/ (a.hi = b.hi /\ a.lo < b.lo)
MagBits(a) == IF a.hi > 0 THEN LimbBits + BitLen(a.hi) ELSE BitLen(a.lo)

\* Round a magnitude to 53 significant bits, to nearest, ties to even;
\* `sticky` tells that the exact value lies above the magnitude given.
MagRound(a, sticky) ==
    IF MagBits(a) <= Mantissa THEN a
    ELSE LET unit == Pow2(MagBits(a) - Mantissa)
             low == a.lo % unit
             down == [hi |-> a.hi, lo |-> a.lo - low]
             odd == (a.lo \div unit) % 2 = 1
             up == \/ 2 * low > unit
                   \/ 2 * low = unit /\ (sticky \/ odd)
         IN IF up THEN MagAdd(down, [hi |-> 0, lo |-> unit]) ELSE down

\* One digit of a long division: floor(r * 2^bits / d) and the remainder
\* (0 <= r < d, r * 2^bits within the integers of the checker).
DivDigit(r, d, bits) ==
    [q |-> (r * Pow2(bits)) \div d, r |-> (r * Pow2(bits)) % d]

\* The magnitude of the double nearest to n / d, for 0 <= n < d < 2^8 and a
\* quotient that is zero or at least 2^-7: floor(n * 2^59 / d) in digits of
\* 23, 23 and 13 bits, then rounded to nearest, ties to even.
MagDiv(n, d) ==
    LET a == DivDigit(n, d, 23)
        b == DivDigit(a.r, d, 23)
        c == DivDigit(b.r, d, 13)
        q == [hi |-> a.q * Pow2(6) + b.q \div Pow2(17),
              lo |-> (b.q % Pow2(17)) * Pow2(13) + c.q]
    IN IF MagBits(q) > Mantissa THEN MagRound(q, c.r # 0)
       ELSE IF 2 * c.r > d \/ (2 * c.r = d /\ q.lo % 2 = 1)
            THEN MagAdd(q, [hi |-> 0, lo |-> 1])
            ELSE q

\* Doubles: sign and magnitude (zero is never negative here).
DZero == [neg |-> FALSE, mag |-> MagZero]
Abs(n) == IF n < 0 THEN 0 - n ELSE n
\* the JavaScript expression n / d on integers n, d with |n| < d
DDiv(n, d) == [neg |-> n < 0, mag |-> MagDiv(Abs(n), d)]
\* the JavaScript expression a + b
DAdd(a, b) ==
    IF a.neg = b.neg THEN [neg |-> a.neg, mag |-> MagRound(MagAdd(a.mag, b.mag), FALSE)]
    ELSE IF a.mag = b.mag THEN DZero
    ELSE IF MagLess(a.mag, b.mag)
         THEN [neg |-> b.neg, mag |-> MagRound(MagSub(b.mag, a.mag), FALSE)]
         ELSE [neg |-> a.neg, mag |-> MagRound(MagSub(a.mag, b.mag), FALSE)]
\* a < b and a <= b
DLess(a, b) ==
    IF a.neg # b.neg THEN a.neg
    ELSE IF a.neg THEN MagLess(b.mag, a.mag) ELSE MagLess(a.mag, b.mag)
DLeq(a, b) == a = b \/ DLess(a, b)

(***************************************************************************)
(* Inputs                                                                  *)
(***************************************************************************)
Coords == {DDiv(k, KM_PER_DEGREE) : k \in 0..MaxCoord}
LatLngs == [lat : Coords, lng : Coords]
Boxes == [southwest : LatLngs, northeast : LatLngs]
TestLimits == -1..MaxLimit
LongBoxes ==
    {[southwest |-> [lat |-> j, lng |-> DZero],
      northeast |-> [lat |-> DDiv(k, KM_PER_DEGREE), lng |-> DZero]] :
        j \in Coords, k \in 0..MaxLongKm}
    \cup {[southwest |-> [lat |-> DZero, lng |-> j],
           northeast |-> [lat |-> DZero, lng |-> DDiv(k, KM_PER_DEGREE)]] :
             j \in Coords, k \in 0..MaxLongKm}

\* Strings whose characters matter are sequences of characters.
Quote == "\""
Ids == {<<"X">>, <<"a", Quote, "b">>}
Ratings == {4, 5}
Places == [id : Ids, rating : Ratings]
NoBox == [southwest |-> [lat |-> DZero, lng |-> DZero],
          northeast |-> [lat |-> DZero, lng |-> DZero]]

(***************************************************************************)
(* Helpers                                                                 *)
(***************************************************************************)

\* kmToDeg: km / 111
kmToDeg(km) == DDiv(km, KM_PER_DEGREE)

\* geocodeCity's check of the response: no result is an error.
NoGeocodeResults(json) == Len(json.results) = 0

\* geometry.bounds ?? geometry.viewport
GeocodeBounds(geometry) ==
    IF geometry.hasBounds THEN geometry.bounds ELSE geometry.viewport

\* The geocode responses tried: no result, or one result whose box is given
\* as bounds or, bounds being absent, as viewport.
WideViewport ==
    [southwest |-> [lat |-> DZero, lng |-> DZero],
     northeast |-> [lat |-> DDiv(MaxCoord, KM_PER_DEGREE),
                    lng |-> DDiv(MaxCoord, KM_PER_DEGREE)]]
Geometries ==
    {[hasBounds |-> h,
      bounds |-> IF h THEN b ELSE NoBox,
      viewport |-> IF h THEN WideViewport ELSE b] : h \in BOOLEAN, b \in Boxes}
GeocodeResponses == {[results |-> <<>>]} \cup {[results |-> <<[geometry |-> g]>>] : g \in Geometries}

\* generateGrid's loop conditions.
LatInBox_Exclusive(la, ne) == DLess(la, ne.lat)
LatInBox(la, ne) == DLeq(la, ne.lat)
LngInBox(lo, ne) == DLeq(lo, ne.lng)

\* Array.prototype.slice(0, n) for an integer n >= 0.
Slice(arr, n) == SubSeq(arr, 1, Min(n, Len(arr)))

\* testLimit && testLimit > 0 ? fullGrid.slice(0, testLimit) : fullGrid
TruncateGrid_DropFirst(full, limit) ==
    IF limit # 0 /\ limit > 0 THEN SubSeq(full, 2, Min(limit + 1, Len(full))) ELSE full
TruncateGrid(full, limit) ==
    IF limit # 0 /\ limit > 0 THEN Slice(full, limit) ELSE full

\* Map: the sequence of its values in insertion order, one per key.
MapKeys(m) == {m[i].id : i \in DOMAIN m}
MapHas(m, id) == id \in MapKeys(m)
MapGet(m, id) == m[CHOOSE i \in DOMAIN m : m[i].id = id]

\* Map.prototype.set(place.id, place): replace the value of a present key
\* where it stands, append an absent key.
MapSet_KeepFirst(m, place) ==
    IF MapHas(m, place.id) THEN m ELSE Append(m, place)
MapSet(m, place) ==
    IF MapHas(m, place.id)
    THEN [i \in DOMAIN m |-> IF m[i].id = place.id THEN place ELSE m[i]]
    ELSE Append(m, place)

\* for (const place of places) unique.set(place.id, place)
RECURSIVE MergeInto(_, _)
MergeInto(m, places) ==
    IF places = <<>> THEN m
    ELSE MergeInto(MapSet(m, Head(places)), Tail(places))
MergeBatch_FreshMap(m, places) == MergeInto(<<>>, places)
MergeBatch(m, places) == MergeInto(m, places)

\* [...unique.values()]
MapValues(m) == m

\* The answers to one search call: a JSON body with places, a JSON body
\* without places (json.places ?? []), or a rejected fetch / unparsable body.
Batches(n) == UNION {[1..k -> Places] : k \in 0..n}
SearchResponses(n) ==
    {[kind |-> "places", places |-> b] : b \in Batches(n)}
    \cup {[kind |-> "noPlaces", places |-> <<>>], [kind |-> "reject", places |-> <<>>]}
RECURSIVE PlacesReturned(_)
PlacesReturned(rs) ==
    IF rs = <<>> THEN 0 ELSE Len(Head(rs).places) + PlacesReturned(Tail(rs))

\* The values escape is given: undefined, a string or a number.
Undefined == [t |-> "undefined"]
Str(chars) == [t |-> "string", v |-> chars]
Num(n) == [t |-> "number", v |-> n]

\* String(n) for an integer n >= 0
DigitChars == <<"0", "1", "2", "3", "4", "5", "6", "7", "8", "9">>
RECURSIVE Digits(_)
Digits(n) ==
    IF n < 10 THEN <<DigitChars[n + 1]>>
    ELSE Digits(n \div 10) \o <<DigitChars[(n % 10) + 1]>>

\* String(value ?? "")
JsString(value) ==
    CASE value.t = "undefined" -> <<>>
      [] value.t = "string" -> value.v
      [] value.t = "number" -> Digits(value.v)

\* .replace(/"/g, '""')
RECURSIVE DoubleQuotes(_)
DoubleQuotes(chars) ==
    IF chars = <<>> THEN <<>>
    ELSE (IF Head(chars) = Quote THEN <<Quote, Quote>> ELSE <<Head(chars)>>)
         \o DoubleQuotes(Tail(chars))

\* escape: `"${String(value ?? "").replace(/"/g, '""')}"`
escape(value) == <<Quote>> \o DoubleQuotes(JsString(value)) \o <<Quote>>

\* Array.prototype.join on strings (sequences of characters)
RECURSIVE Join(_, _)
Join(strings, sep) ==
    IF strings = <<>> THEN <<>>
    ELSE IF Len(strings) = 1 THEN Head(strings)
    ELSE Head(strings) \o <<sep>> \o Join(Tail(strings), sep)
Comma == ","
Newline == "\n"

\* toCsv: the header line, then one line per place, joined by "\n"; the
\* fields of a line are joined by ",". The places of the model have an id
\* and a rating; their other fields are absent.
Header ==
    <<<<"i", "d">>,
      <<"n", "a", "m", "e">>,
      <<"r", "a", "t", "i", "n", "g">>,
      <<"u", "s", "e", "r", "R", "a", "t", "i", "n", "g", "C", "o", "u", "n", "t">>,
      <<"w", "e", "b", "s", "i", "t", "e", "U", "r", "i">>,
      <<"f", "o", "r", "m", "a", "t", "t", "e", "d", "A", "d", "d", "r", "e", "s", "s">>,
      <<"l", "a", "t", "i", "t", "u", "d", "e">>,
      <<"l", "o", "n", "g", "i", "t", "u", "d", "e">>>>
CsvRow(p) ==
    <<escape(Str(p.id)), escape(Undefined), escape(Num(p.rating)),
      escape(Undefined), escape(Undefined), escape(Undefined),
      escape(Undefined), escape(Undefined)>>
CsvRows(places) == [i \in DOMAIN places |-> Join(CsvRow(places[i]), Comma)]
toCsv_NoHeader(places) == Join(CsvRows(places), Newline)
toCsv(places) == Join(<<Join(Header, Comma)>> \o CsvRows(places), Newline)

\* The file places_<city>.csv: untouched by the run (whatever was under that
\* name, nothing or an older export, is still there), or opened by
\* writeFileSync, which creates or truncates it, and holding the bytes
\* written since.
Untouched == [opened |-> FALSE, bytes |-> <<>>]
Written(bytes) == [opened |-> TRUE, bytes |-> bytes]

\* The lengths at which a write that fails after the open may stop: any
\* proper prefix of the text, of which the model takes the MaxCut shortest
\* and the MaxCut longest.
Cuts(text) ==
    {n \in 0..Len(text) - 1 : n < MaxCut \/ n >= Len(text) - MaxCut}

\* The for-of loop of run(): `await searchNearby` and `await sleep` let the
\* loop go on only when no call is in flight and no delay is pending.
NextCallReady_SleepNotAwaited == inflight = 0
NextCallReady == inflight = 0 /\ timer = 0
LoopDone_OffByOne(i, g) == i + 1 >= Len(g)
LoopDone(i, g) == i >= Len(g)

\* Exit code: process.exit(1) in run().catch, 0 when run() resolves.
ProcessExitCode_AlwaysZero(rejected) == IF rejected THEN 0 ELSE 0
ProcessExitCode(rejected) == IF rejected THEN 1 ELSE 0

(***************************************************************************)
(* State machine                                                           *)
(***************************************************************************)

Idle ==
    /\ gpc = "idle" /\ gStep = DZero /\ lat = DZero /\ lng = DZero /\ points = <<>>
    /\ writeFailed = FALSE /\ file = Untouched
    /\ fullGrid = <<>> /\ grid = <<>> /\ idx = 0 /\ inflight = 0 /\ timer = 0
    /\ unique = <<>> /\ results = <<>> /\ csv = <<>> /\ nExports = 0
    /\ exitCode = -1 /\ searched = <<>> /\ responses = <<>> /\ nSleeps = 0

\* run(city, types, testLimit) has been called with the credential and the
\* city present; nothing has been fetched yet.
Init ==
    /\ pc = "START"
    /\ testLimit \in TestLimits
    /\ geocodeCalls = 0
    /\ geoOutcome = "pending"
    /\ bounds = NoBox
    /\ Idle

\* generateGrid alone, entered with any box.
InitGrid ==
    /\ pc = "GEOCODED"
    /\ testLimit = 0
    /\ geocodeCalls = 1
    /\ geoOutcome = "results"
    /\ bounds \in Boxes \cup LongBoxes
    /\ Idle

\* geocodeCity: the fetch is issued.
GeocodeCall ==
    /\ pc = "START"
    /\ pc' = "GEOCODING"
    /\ geocodeCalls' = geocodeCalls + 1
    /\ UNCHANGED <<testLimit, bounds, gpc, gStep, lat, lng, points,
                   fullGrid, grid, idx, inflight, timer, unique, results, csv,
                   nExports, exitCode, searched, responses, nSleeps, geoOutcome, writeFailed,
                   file>>

\* geocodeCity: the fetch rejects (no answer, or a body that is not JSON).
GeocodeReject ==
    /\ pc = "GEOCODING"
    /\ pc' = "REJECTED"
    /\ geoOutcome' = "reject"
    /\ UNCHANGED <<testLimit, geocodeCalls, bounds, gpc, gStep, lat, lng,
                   points, fullGrid, grid, idx, inflight, timer, unique, results,
                   csv, nExports, exitCode, searched, responses, nSleeps,
                   writeFailed,
                   file>>

\* geocodeCity: the answer arrives; no result throws, otherwise the first
\* result's bounds (or viewport) is returned.
GeocodeReturn ==
    /\ pc = "GEOCODING"
    /\ \E json \in GeocodeResponses :
         IF NoGeocodeResults(json)
         THEN /\ pc' = "REJECTED"
              /\ geoOutcome' = "zero"
              /\ bounds' = bounds
         ELSE /\ pc' = "GEOCODED"
              /\ geoOutcome' = "results"
              /\ bounds' = GeocodeBounds(json.results[1].geometry)
    /\ UNCHANGED <<testLimit, geocodeCalls, gpc, gStep, lat, lng, points,
                   fullGrid, grid, idx, inflight, timer, unique, results, csv,
                   nExports, exitCode, searched, responses, nSleeps, writeFailed,
                   file>>

\* generateGrid: points = [], step = kmToDeg(STEP_KM), lat = sw.lat.
GridStart ==
    /\ pc = "GEOCODED" /\ gpc = "idle"
    /\ gpc' = "row"
    /\ points' = <<>>
    /\ gStep' = kmToDeg(STEP_KM)
    /\ lat' = bounds.southwest.lat
    /\ UNCHANGED <<pc, testLimit, geocodeCalls, bounds, lng, fullGrid,
                   grid, idx, inflight, timer, unique, results, csv, nExports,
                   exitCode, searched, responses, nSleeps, geoOutcome, writeFailed,
                   file>>

\* generateGrid: the outer loop's test; a row starts at sw.lng, or the
\* function returns points.
GridRow ==
    /\ gpc = "row"
    /\ IF LatInBox(lat, bounds.northeast)
       THEN /\ gpc' = "col"
            /\ lng' = bounds.southwest.lng
       ELSE /\ gpc' = "done"
            /\ lng' = lng
    /\ UNCHANGED <<pc, testLimit, geocodeCalls, bounds, gStep, lat, points,
                   fullGrid, grid, idx, inflight, timer, unique, results, csv,
                   nExports, exitCode, searched, responses, nSleeps, geoOutcome, writeFailed,
                   file>>

\* generateGrid: the inner loop's test; push {lat, lng} and step east, or
\* step north to the next row.
GridCol ==
    /\ gpc = "col"
    /\ IF LngInBox(lng, bounds.northeast)
       THEN /\ points' = Append(points, [lat |-> lat, lng |-> lng])
            /\ lng' = DAdd(lng, gStep)
            /\ UNCHANGED <<gpc, lat>>
       ELSE /\ lat' = DAdd(lat, gStep)
            /\ gpc' = "row"
            /\ UNCHANGED <<points, lng>>
    /\ UNCHANGED <<pc, testLimit, geocodeCalls, bounds, gStep, fullGrid,
                   grid, idx, inflight, timer, unique, results, csv, nExports,
                   exitCode, searched, responses, nSleeps, geoOutcome, writeFailed,
                   file>>

\* run: fullGrid = generateGrid(...), grid = the truncated grid, unique = new Map.
GridReturn ==
    /\ pc = "GEOCODED" /\ gpc = "done"
    /\ fullGrid' = points
    /\ grid' = TruncateGrid(points, testLimit)
    /\ unique' = <<>>
    /\ pc' = "GRID_BUILT"
    /\ UNCHANGED <<testLimit, geocodeCalls, bounds, gpc, gStep, lat, lng,
                   points, idx, inflight, timer, results, csv, nExports, exitCode,
                   searched, responses, nSleeps, geoOutcome, writeFailed,
                   file>>

\* run: the loop's next iteration calls searchNearby(p.lat, p.lng, types),
\* whose fetch is issued.
SearchCall ==
    /\ pc \in {"GRID_BUILT", "SEARCHING"}
    /\ NextCallReady
    /\ ~LoopDone(idx, grid)
    /\ pc' = "SEARCHING"
    /\ inflight' = inflight + 1
    /\ searched' = Append(searched, grid[idx + 1])
    /\ UNCHANGED <<testLimit, geocodeCalls, bounds, gpc, gStep, lat, lng,
                   points, fullGrid, grid, idx, timer, unique, results, csv,
                   nExports, exitCode, responses, nSleeps, geoOutcome, writeFailed,
                   file>>

\* run: the answer to the call in flight. A rejection propagates out of
\* run(); otherwise every place is set in the Map and sleep(300) starts.
SearchReturn ==
    /\ pc = "SEARCHING" /\ inflight > 0
    /\ \E r \in SearchResponses(MaxPlaces - PlacesReturned(responses)) :
         /\ responses' = Append(responses, r)
         /\ inflight' = inflight - 1
         /\ IF r.kind = "reject"
            THEN /\ pc' = "REJECTED"
                 /\ UNCHANGED <<unique, idx, timer>>
            ELSE /\ unique' = MergeBatch(unique, r.places)
                 /\ idx' = idx + 1
                 /\ timer' = SLEEP_MS
                 /\ pc' = pc
    /\ UNCHANGED <<testLimit, geocodeCalls, bounds, gpc, gStep, lat, lng,
                   points, fullGrid, grid, results, csv, nExports, exitCode,
                   searched, nSleeps, geoOutcome, writeFailed,
                   file>>

\* sleep(300): the timer fires.
SleepDone ==
    /\ pc = "SEARCHING" /\ timer > 0
    /\ timer' = 0
    /\ nSleeps' = nSleeps + 1
    /\ UNCHANGED <<pc, testLimit, geocodeCalls, bounds, gpc, gStep, lat,
                   lng, points, fullGrid, grid, idx, inflight, unique, results,
                   csv, nExports, exitCode, searched, responses, geoOutcome,
                   writeFailed,
                   file>>

\* run: the loop is over; results = [...unique.values()].
Collect ==
    /\ pc \in {"GRID_BUILT", "SEARCHING"}
    /\ NextCallReady
    /\ LoopDone(idx, grid)
    /\ results' = MapValues(unique)
    /\ pc' = "MERGED"
    /\ UNCHANGED <<testLimit, geocodeCalls, bounds, gpc, gStep, lat, lng,
                   points, fullGrid, grid, idx, inflight, timer, unique, csv,
                   nExports, exitCode, searched, responses, nSleeps, geoOutcome, writeFailed,
                   file>>

\* run: csv = toCsv(results); writeFileSync(fileName, csv) opens the file
\* (creating or truncating it) and writes the whole text.
Export ==
    /\ pc = "MERGED"
    /\ csv' = toCsv(results)
    /\ file' = Written(toCsv(results))
    /\ nExports' = nExports + 1
    /\ pc' = "EXPORTED"
    /\ UNCHANGED <<testLimit, geocodeCalls, bounds, gpc, gStep, lat, lng,
                   points, fullGrid, grid, idx, inflight, timer, unique, results,
                   exitCode, searched, responses, nSleeps, geoOutcome, writeFailed>>

\* run: writeFileSync throws and the error propagates out of run(). Either
\* the open fails (ENOENT for a name with a directory that does not exist,
\* EISDIR, EACCES) and the file is not touched, or the open has created or
\* truncated the file and a write fails (EFBIG, ENOSPC, EIO), which leaves
\* the file with the bytes written before: none, or a cut of the text.
ExportFail ==
    /\ pc = "MERGED"
    /\ csv' = toCsv(results)
    /\ \/ file' = file
       \/ \E n \in Cuts(toCsv(results)) :
            file' = Written(SubSeq(toCsv(results), 1, n))
    /\ writeFailed' = TRUE
    /\ nExports' = nExports + 1
    /\ pc' = "REJECTED"
    /\ UNCHANGED <<testLimit, geocodeCalls, bounds, gpc, gStep, lat, lng,
                   points, fullGrid, grid, idx, inflight, timer, unique, results,
                   exitCode, searched, responses, nSleeps, geoOutcome>>

\* run() resolves and the process ends.
Done ==
    /\ pc = "EXPORTED"
    /\ pc' = "DONE"
    /\ exitCode' = ProcessExitCode(FALSE)
    /\ UNCHANGED <<testLimit, geocodeCalls, bounds, gpc, gStep, lat, lng,
                   points, fullGrid, grid, idx, inflight, timer, unique, results,
                   csv, nExports, searched, responses, nSleeps, geoOutcome, writeFailed,
                   file>>

\* run().catch: console.error(err); process.exit(1).
Catch ==
    /\ pc = "REJECTED"
    /\ pc' = "EXITED"
    /\ exitCode' = ProcessExitCode(TRUE)
    /\ UNCHANGED <<testLimit, geocodeCalls, bounds, gpc, gStep, lat, lng,
                   points, fullGrid, grid, idx, inflight, timer, unique, results,
                   csv, nExports, searched, responses, nSleeps, geoOutcome, writeFailed,
                   file>>

Next ==
    \/ GeocodeCall \/ GeocodeReject \/ GeocodeReturn
    \/ GridStart \/ GridRow \/ GridCol \/ GridReturn
    \/ SearchCall \/ SearchReturn \/ SleepDone
    \/ Collect \/ Export \/ ExportFail \/ Done \/ Catch

Spec == Init /\ [][Next]_vars

NextGrid == GridStart \/ GridRow \/ GridCol \/ GridReturn

SpecGrid == InitGrid /\ [][NextGrid]_vars

(***************************************************************************)
(* Definitions used to state the properties                                *)
(***************************************************************************)

ValidBox(b) ==
    /\ DLeq(b.southwest.lat, b.northeast.lat)
    /\ DLeq(b.southwest.lng, b.northeast.lng)
\* a + b as a real number, without rounding
ExactSum(a, b) ==
    IF a.neg = b.neg THEN [neg |-> a.neg, mag |-> MagAdd(a.mag, b.mag)]
    ELSE IF a.mag = b.mag THEN DZero
    ELSE IF MagLess(a.mag, b.mag)
         THEN [neg |-> b.neg, mag |-> MagSub(b.mag, a.mag)]
         ELSE [neg |-> a.neg, mag |-> MagSub(a.mag, b.mag)]
Last(seq) == seq[Len(seq)]
Finished == pc \in {"MERGED", "EXPORTED", "DONE"}
HasReject == \E i \in DOMAIN responses : responses[i].kind = "reject"

\* The ids that appear in some response, and for such an id the record the
\* last response holding it gives last.
IdsOf(places) == {places[i].id : i \in DOMAIN places}
SeenIds == UNION {IdsOf(responses[i].places) : i \in DOMAIN responses}
LastOf(places, id) ==
    places[CHOOSE i \in DOMAIN places :
             /\ places[i].id = id
             /\ \A j \in DOMAIN places : places[j].id = id => j <= i]
LastPointWith(id) ==
    CHOOSE i \in DOMAIN responses :
        /\ id \in IdsOf(responses[i].places)
        /\ \A j \in DOMAIN responses : id \in IdsOf(responses[j].places) => j <= i
LastSeen(id) == LastOf(responses[LastPointWith(id)].places, id)

\* Raster order from a corner: the first point is the corner; each next
\* point lies east in the same row, or starts the next row to the north at
\* the corner's longitude.
RasterOrder(g, sw) ==
    /\ g # <<>> => g[1] = sw
    /\ \A i \in 1..Len(g) - 1 :
         \/ g[i + 1].lat = g[i].lat /\ DLess(g[i].lng, g[i + 1].lng)
         \/ DLess(g[i].lat, g[i + 1].lat) /\ g[i + 1].lng = sw.lng

\* Merging a sequence of batches one after the other, the batches taken in
\* another order, and all of them concatenated into one batch.
RECURSIVE MergeAll(_, _)
MergeAll(m, bs) ==
    IF bs = <<>> THEN m ELSE MergeAll(MergeBatch(m, Head(bs)), Tail(bs))
RECURSIVE Concat(_)
Concat(bs) == IF bs = <<>> THEN <<>> ELSE Head(bs) \o Concat(Tail(bs))
MaxGridLen == (MaxCoord \div STEP_KM + 1) * (MaxCoord \div STEP_KM + 1)
AllPerms ==
    UNION {{f \in [1..n -> 1..n] : \A i, j \in 1..n : f[i] = f[j] => i = j} :
             n \in 0..MaxGridLen}
Perms(n) == {f \in AllPerms : Len(f) = n}
Permuted(bs, f) == [i \in DOMAIN bs |-> bs[f[i]]]
ResultSet(m) == {m[i] : i \in DOMAIN m}
BatchLog == [i \in DOMAIN responses |-> responses[i].places]
Agree(bs) ==
    \A i, j \in DOMAIN bs : \A a \in DOMAIN bs[i], b \in DOMAIN bs[j] :
        bs[i][a].id = bs[j][b].id => bs[i][a] = bs[j][b]

\* The positions at which the lines of a text start, and whether the text
\* has the string `word` at position n.
LineStarts(text) ==
    {1} \cup {n + 1 : n \in {m \in DOMAIN text : text[m] = Newline}}
StartsAt(text, n, word) ==
    /\ n + Len(word) - 1 <= Len(text)
    /\ SubSeq(text, n, n + Len(word) - 1) = word

StageRank(stage) ==
    CASE stage = "START" -> 0
      [] stage = "GEOCODING" -> 1
      [] stage = "GEOCODED" -> 2
      [] stage = "GRID_BUILT" -> 3
      [] stage = "SEARCHING" -> 4
      [] stage = "MERGED" -> 5
      [] stage = "EXPORTED" -> 6
      [] stage = "DONE" -> 7
      [] stage = "REJECTED" -> 8
      [] stage = "EXITED" -> 9

(***************************************************************************)
(* Properties                                                              *)
(***************************************************************************)

\* C1: once the responses of the searched points are merged, the Map holds
\* exactly one record for each id that appeared in a response and none for
\* any other id, the record being the one of the last point (in grid order)
\* whose response held the id; the file exported then has the header line
\* and, for each such id, exactly one line that starts with the id's field.
C1_DedupLastWins ==
    /\ MapKeys(unique) = SeenIds
    /\ \A i, j \in DOMAIN unique : unique[i].id = unique[j].id => i = j
    /\ \A id \in SeenIds : MapGet(unique, id) = LastSeen(id)
    /\ pc \in {"EXPORTED", "DONE"} =>
         /\ file = Written(csv)
         /\ Cardinality(LineStarts(csv)) = 1 + Cardinality(SeenIds)
         /\ \A id \in SeenIds :
              Cardinality({n \in LineStarts(csv) \ {1} :
                             StartsAt(csv, n, escape(Str(id)) \o <<Comma>>)}) = 1

C1_Witness ==
    /\ pc = "DONE"
    /\ \E i, j \in DOMAIN responses :
         /\ i < j
         /\ \E a \in DOMAIN responses[i].places, b \in DOMAIN responses[j].places :
              /\ responses[i].places[a].id = <<"a", Quote, "b">>
              /\ responses[j].places[b].id = <<"a", Quote, "b">>
              /\ responses[i].places[a] # responses[j].places[b]
    /\ Cardinality(LineStarts(file.bytes)) = 2
    /\ \E n \in LineStarts(file.bytes) :
         StartsAt(file.bytes, n, <<Quote, "a", Quote, Quote, "b", Quote, Comma>>)

\* C2: a search call that fails counts as zero records from its point: the
\* run still searches every remaining point and ends with the export of
\* everything collected.
C2_PointFailureTolerated ==
    (HasReject /\ exitCode # -1) =>
        /\ Len(searched) = Len(grid)
        /\ nExports = 1
        /\ file = Written(toCsv(MapValues(unique)))
        /\ exitCode = 0

\* C3: for a box with sw <= ne and a positive step, generateGrid returns a
\* non-empty sequence that starts at southwest and whose last point lies at
\* or below northeast and less than one step short of it, in latitude and
\* in longitude, the sum last + step taken as the loop computes it and as a
\* real number alike; a box smaller than one step (northeast below
\* southwest + step as the loop computes it) gives the southwest corner
\* alone.
C3_GridCoversBox ==
    (gpc = "done" /\ DLess(DZero, gStep) /\ ValidBox(bounds)) =>
        /\ points # <<>>
        /\ points[1] = bounds.southwest
        /\ DLeq(Last(points).lat, bounds.northeast.lat)
        /\ DLeq(Last(points).lng, bounds.northeast.lng)
        /\ DLess(bounds.northeast.lat, DAdd(Last(points).lat, gStep))
        /\ DLess(bounds.northeast.lng, DAdd(Last(points).lng, gStep))
        /\ DLess(bounds.northeast.lat, ExactSum(Last(points).lat, gStep))
        /\ DLess(bounds.northeast.lng, ExactSum(Last(points).lng, gStep))
        /\ (/\ DLess(bounds.northeast.lat, DAdd(bounds.southwest.lat, gStep))
            /\ DLess(bounds.northeast.lng, DAdd(bounds.southwest.lng, gStep)))
           => points = <<bounds.southwest>>

\* The box from 0 to 57 / 111 with the step 3 / 111: the 19 additions of
\* the step end above 57 / 111, so the 20th row is not emitted and the last
\* row lies almost one step south of northeast.
C3_Witness ==
    /\ gpc = "done" /\ gStep = kmToDeg(STEP_KM) /\ ValidBox(bounds)
    /\ bounds.northeast.lat = DDiv(19 * STEP_KM, KM_PER_DEGREE)
    /\ Len(points) = 19
    /\ DLess(Last(points).lat, bounds.northeast.lat)
    /\ DLess(bounds.northeast.lat, lat)

\* C4: with a positive test limit N the search calls go to the first N
\* points of the generated grid (all of it when it has fewer), in its
\* order, each once, and to no other point; the grid is in raster order
\* from southwest; a run that reaches the export has searched all N.
C4_TestLimitPrefix ==
    (testLimit > 0 /\ pc \notin {"START", "GEOCODING", "GEOCODED"}) =>
        LET n == Min(testLimit, Len(fullGrid))
        IN /\ RasterOrder(fullGrid, bounds.southwest)
           /\ Len(searched) <= n
           /\ \A i \in DOMAIN searched : searched[i] = fullGrid[i]
           /\ Finished => Len(searched) = n

C4_Witness ==
    /\ pc = "DONE" /\ testLimit = 3
    /\ Len(fullGrid) = 4 /\ Len(searched) = 3
    /\ DLess(searched[1].lng, searched[2].lng)
    /\ DLess(searched[1].lat, searched[3].lat)

\* C5: when the geocode answer has no result the run fails: the geocode is
\* not called again, no grid is built, no search call is issued, nothing is
\* exported, and the process exits with a non-zero code.
C5_ZeroGeocodeFatal ==
    geoOutcome = "zero" =>
        /\ geocodeCalls = 1
        /\ gpc = "idle" /\ fullGrid = <<>> /\ grid = <<>>
        /\ searched = <<>> /\ inflight = 0
        /\ nExports = 0 /\ csv = <<>> /\ file = Untouched
        /\ pc \in {"REJECTED", "EXITED"}
        /\ exitCode # 0
        /\ pc = "EXITED" => exitCode > 0

C5_Witness == geoOutcome = "zero" /\ pc = "EXITED" /\ exitCode = 1

\* C7 (as claimed): merging the response batches in any order, from any
\* starting result set the run went through, gives the same result set.
C7_MergeOrderIndependent ==
    pc = "MERGED" =>
        \A k \in 0..Len(BatchLog) :
            LET start == MergeAll(<<>>, SubSeq(BatchLog, 1, k))
                rest == SubSeq(BatchLog, k + 1, Len(BatchLog))
            IN \A f \in Perms(Len(rest)) :
                 ResultSet(MergeAll(start, Permuted(rest, f))) = ResultSet(unique)

\* C7 (amended): the merger is associative -- merging the remaining batches
\* one after the other or concatenated into one batch gives the same Map --
\* and the order of the batches never changes the set of ids; the records
\* are the same in every order when the batches agree on the record of each
\* id they share.
C7_MergeAssociativeKeysCommute ==
    pc = "MERGED" =>
        \A k \in 0..Len(BatchLog) :
            LET start == MergeAll(<<>>, SubSeq(BatchLog, 1, k))
                rest == SubSeq(BatchLog, k + 1, Len(BatchLog))
            IN /\ MergeBatch(start, Concat(rest)) = unique
               /\ IF Agree(rest)
                  THEN \A f \in Perms(Len(rest)) :
                         ResultSet(MergeAll(start, Permuted(rest, f))) = ResultSet(unique)
                  ELSE \A f \in Perms(Len(rest)) :
                         MapKeys(MergeAll(start, Permuted(rest, f))) = MapKeys(unique)

C7_Witness ==
    /\ pc = "MERGED"
    /\ Len(BatchLog) >= 2
    /\ BatchLog[1] # <<>> /\ BatchLog[2] # <<>>
    /\ BatchLog[1] # BatchLog[2]
    /\ Agree(BatchLog)
    /\ Len(unique) = 2

\* C8: at most one search call is in flight; a call is issued only when
\* every earlier call has been answered and merged and the pacing delay
\* that follows it has elapsed; the delay is the fixed one and starts with
\* every merge; the export comes only after the delay of the last point.
C8_OneCallAtATime ==
    /\ [](/\ inflight \in {0, 1}
          /\ Len(responses) + inflight = Len(searched)
          /\ timer \in {0, SLEEP_MS})
    /\ [][/\ Len(searched') > Len(searched) =>
               /\ inflight = 0 /\ timer = 0
               /\ idx = Len(searched) /\ nSleeps = Len(searched)
          /\ idx' > idx => timer' = SLEEP_MS
          /\ (pc' = "MERGED" /\ pc # "MERGED") =>
               /\ inflight = 0 /\ timer = 0
               /\ idx = Len(searched) /\ nSleeps = Len(searched)]_vars

C8_Witness ==
    /\ pc = "DONE" /\ Len(searched) = 4 /\ nSleeps = 4 /\ Len(unique) = 2

\* C9: the stage only advances; writeFileSync is called at most once, after
\* every point of the grid has been searched and merged, with the text of
\* the values of the final Map; until then the file is untouched; a call
\* that returns leaves the file with that text, a call that throws leaves
\* it untouched or with a cut of the text; neither a search call nor a
\* change of the Map or of the file follows the call.
C9_ForwardOnly ==
    /\ [](/\ nExports <= 1
          /\ nExports = 0 => (file = Untouched /\ csv = <<>>)
          /\ nExports = 1 =>
               /\ searched = grid
               /\ idx = Len(grid) /\ Len(responses) = Len(grid) /\ inflight = 0
               /\ ~HasReject
               /\ results = MapValues(unique)
               /\ csv = toCsv(MapValues(unique))
          /\ pc \in {"EXPORTED", "DONE"} =>
               /\ nExports = 1 /\ ~writeFailed
               /\ file = Written(csv)
          /\ writeFailed =>
               /\ nExports = 1 /\ pc \in {"REJECTED", "EXITED"}
               /\ \/ file = Untouched
                  \/ /\ file.opened /\ Len(file.bytes) < Len(csv)
                     /\ file.bytes = SubSeq(csv, 1, Len(file.bytes)))
    /\ [][/\ StageRank(pc') >= StageRank(pc)
          /\ nExports = 1 =>
               /\ unique' = unique /\ searched' = searched
               /\ csv' = csv /\ file' = file /\ nExports' = nExports]_vars

C9_Witness ==
    /\ pc = "DONE" /\ Len(grid) = 3 /\ Len(fullGrid) = 4
    /\ Cardinality(LineStarts(file.bytes)) = 3

\* C10: with a box whose southwest lies north or east of its northeast,
\* generateGrid returns no point and raises nothing; the run issues no
\* search call and, unless writeFileSync itself throws, writes an export
\* that holds the header line alone and ends as a success.
C10_MalformedBoxEmptyExport ==
    (geoOutcome = "results" /\ ~ValidBox(bounds) /\ ~writeFailed) =>
        /\ points = <<>> /\ fullGrid = <<>> /\ grid = <<>>
        /\ searched = <<>> /\ inflight = 0
        /\ pc \in {"GEOCODED", "GRID_BUILT", "MERGED", "EXPORTED", "DONE"}
        /\ pc \in {"EXPORTED", "DONE"} =>
             (nExports = 1 /\ file = Written(Join(Header, Comma)))
        /\ pc = "DONE" => exitCode = 0
        /\ pc # "DONE" =>
             \/ pc = "GEOCODED" /\ gpc = "idle"     \* the guard of GridStart
             \/ ENABLED (GridRow \/ GridCol \/ GridReturn \/ Collect \/ Export \/ Done)

C10_Witness ==
    /\ pc = "DONE" /\ nExports = 1 /\ exitCode = 0
    /\ file.opened /\ Cardinality(LineStarts(file.bytes)) = 1
    /\ ~ValidBox(bounds)
    /\ DLess(bounds.southwest.lat, bounds.northeast.lat)
    /\ DLess(bounds.northeast.lat, lat)

====
